---- MODULE Spec2Model ----
(***************************************************************************)
(* Model of the Tree adapter of src/src/tree.ts (class Tree, lines 87-431) *)
(* and of the collaborators it calls (src/src/uri.ts,                      *)
(* src/unnamed/part_006 error reporting).                                  *)
(*                                                                         *)
(* The adapter runs on a single-threaded event loop.  Every action below   *)
(* is one synchronous run of code: the part of a method from its entry (or *)
(* from the resumption of an await) up to its next await or its return.    *)
(* A call suspended at an await is a frame in `frames`.                    *)
(***************************************************************************)
EXTENDS Integers, Sequences, FiniteSets, Bags, TLC

VARIABLES
  data,       \* Tree.data: the root collection (sequence of nodes)
  promise,    \* Tree.promise: id of the in-flight root promise, 0 = undefined
  promises,   \* the promises handed to setData: id -> [st, val]
  meta,       \* the "__tree" record hidden on each node (TreeNodeMetadata)
  frames,     \* calls suspended at an await: a bag of frames
  transfer,   \* the DataTransfer of the current drag: <<>> or <<payload>>
  dragged,    \* ghost: <<[node, uri]>> of the drag that stored the payload
  last,       \* what the latest step did (operation, result, callbacks, events)
  latest,     \* ghost: promise id of the most recent setData call, 0 = array
  lastParent, \* ghost: per node c, the node whose producer last returned c
  history,    \* ghost: TRUE in the runs that record firstItem and firstKids
  firstItem,  \* ghost: per node, <<item>> first returned since its last invalidation
  firstKids,  \* ghost: per node, <<list>> first returned since its last invalidation
  iter,       \* the generator object of one iterateNodes call
  prog,       \* a Progress object, its suspended with() calls and the host's notifications
  act         \* an Activity object, its tasks, its suspended run() calls and the host's notifications

vars == <<data, promise, promises, meta, frames, transfer, dragged, last, latest, lastParent,
          history, firstItem, firstKids, iter, prog, act>>

\* The variables of the Tree.
treeVars == <<data, promise, promises, meta, frames, transfer, dragged, last, latest,
              lastParent, history, firstItem, firstKids, iter>>

-----------------------------------------------------------------------------
(* Bounds of the model *)

MaxFrames == 2      \* calls that may be suspended at the same time
MaxPromises == 2    \* promises handed to setData during a run
MaxWith == 4        \* Progress.with calls during a run
MaxRun == 4         \* Activity.run calls during a run

-----------------------------------------------------------------------------
(* The caller's nodes: three node objects and the capabilities they        *)
(* implement (interface TreeNode).                                         *)

Nodes == {"r", "a", "b"}
NoNode == "none"

\* Optional values: <<>> is undefined, <<x>> is x.
Some(x) == <<x>>
Undef == <<>>
IsDef(o) == o # <<>>
Val(o) == o[1]

\* A resource locator (vscode Uri): authority and path segments.
BaseUri == [auth |-> "base", path |-> <<>>]
OtherUri == [auth |-> "other", path |-> <<"o">>]

\* TreeNode.getUriPathSegments, after normalizeArray: <<>> when not declared.
PathSegments(n) ==
  CASE n = "a" -> <<"x", "y">>
    [] n = "b" -> <<"z">>
    [] OTHER -> <<>>

\* TreeItem.resourceUri values the node's own renderer (TreeNode.getTreeItem) may set.
RendererUris(n) ==
  CASE n = "r" -> {Some(BaseUri), Undef}
    [] n = "a" -> {Undef, Some(OtherUri)}
    [] OTHER -> {Undef}

\* TreeNode.getChildren is defined on these nodes.
HasGetChildren(n) == n \in {"r", "a"}

\* Lists the children-producer of a node may return.
ChildLists(n) ==
  CASE n = "r" -> {<<"a">>, <<"a", "b">>}
    [] n = "a" -> {<<"b">>}
    [] OTHER -> {}

\* Child lists of callers whose producers share no node: every node is
\* returned by the producer of at most one parent.
OwnChildLists(n) ==
  CASE n = "r" -> {<<"a">>, <<"a", "b">>}
    [] n = "a" -> {<<>>}
    [] OTHER -> {}

\* TreeItem.checkboxState / contextValue as the node's own renderer sets them.
RendererCheckbox(n) == IF n = "b" THEN "checked" ELSE "unset"
RendererContext(n) == IF n = "r" THEN "rootCtx" ELSE "unset"

\* Commands.getMetadata(node.constructor).viewItemId, "unset" when the class has none.
ViewItemId(n) == IF n \in {"r", "a"} THEN "viewItem" ELSE "unset"

HasGetChecked(n) == n = "b"
HasGetDecorations(n) == n \in {"r", "a"}
HasOnDrag(n) == n \in {"a", "b"}
HasOnDrop(n) == n \in {"r", "a"}

\* Root collections a caller passes to setData (directly or through a promise).
RootSets == {<<"r">>, <<"a">>}

-----------------------------------------------------------------------------
(* Records *)

NoMeta == [exists |-> FALSE, treeItem |-> Undef, children |-> Undef,
           parent |-> NoNode, decorations |-> FALSE]

\* A suspended call: kind is "setData" or "root" (awaiting root promise p),
\* "item" or "checked" (getTreeItem awaiting the node's renderer / checkbox-getter;
\* uri is what the renderer returned), "kids" (getChildren awaiting the producer).
\* stale is a ghost, kept in the runs that record history: the node's metadata
\* was cleared (line 230-232) while the call was suspended.
Frame(kind, node, p, uri) ==
  [kind |-> kind, node |-> node, p |-> p, uri |-> uri, stale |-> FALSE]

\* A TreeItem, by content.
Item(uri, checkbox, ctx) == [uri |-> uri, checkbox |-> checkbox, ctx |-> ctx]

\* The latest step: op names the operation; ret is what it returned (<<>> for
\* nothing), hit tells a cache hit, called the node callbacks it invoked, fired /
\* deco the events it emitted, err whether an error was reported / rethrown;
\* fin tells that getTreeItem ran its last part (lines 280-326) on an item whose
\* locator the renderer had set to raw.
NoLast == [op |-> "init", node |-> NoNode, ret |-> Undef, hit |-> FALSE,
           called |-> {}, fired |-> <<>>, deco |-> <<>>, err |-> "none",
           p |-> 0, rec |-> FALSE, fin |-> FALSE, raw |-> Undef, arg |-> Undef,
           cause |-> "none", seen |-> {}, got |-> Undef]

\* A variant of reportErrorsNoRethrow that throws after reporting.
ReportThenThrow == "rethrown"

\* How a failure inside a call ends (last.err).  reportErrorsNoRethrow
\* (part_006 lines 37-45): handleError, then return undefined.
ReportErrorsNoRethrow == "reported"

\* reportErrorsAndRethrow (part_006 lines 27-35): handleError, then throw.
ReportErrorsAndRethrow == "rethrown"

\* No wrapper (setData, lines 163-176): the failure just leaves the call.
Raised == "raised"

PromiseIds == 1..MaxPromises

CanSuspend == BagCardinality(frames) < MaxFrames
Suspend(f) == frames (+) SetToBag({f})
Resume(f) == frames (-) SetToBag({f})
Suspended == BagToSet(frames)

-----------------------------------------------------------------------------
(* Metadata helpers *)

\* Tree.getMetadata: objectGetOrSetProperty creates the record on first access.
GetMetadata(m, n) == [m EXCEPT ![n].exists = TRUE]

\* A variant of ResetFields that drops the parent back-reference too.
ResetFieldsAndParent(md) ==
  [md EXCEPT !.treeItem = Undef, !.children = Undef, !.decorations = FALSE,
             !.parent = NoNode]

\* clearMetadata, lines 230-232: the three cached fields are reset, the
\* parent back-reference is not.
ResetFields(md) ==
  [md EXCEPT !.treeItem = Undef, !.children = Undef, !.decorations = FALSE]

RECURSIVE ClearMetadata(_, _, _)
RECURSIVE ClearAll(_, _, _)

\* nodes.forEach(node => this.clearMetadata(node, recursive))
ClearAll(m, nodes, recursive) ==
  IF nodes = <<>> THEN m
  ELSE ClearAll(ClearMetadata(m, Head(nodes), recursive), Tail(nodes), recursive)

\* A variant of clearMetadata that always resets the cached children too.
ClearMetadataWithChildren(m, n, recursive) ==
  LET m0 == GetMetadata(m, n)
      kids == IF IsDef(m0[n].children)
              THEN {Val(m0[n].children)[i] : i \in 1..Len(Val(m0[n].children))}
              ELSE {}
  IN [x \in Nodes |-> IF x = n \/ x \in kids THEN ResetFields(m0[x]) ELSE m0[x]]

\* Tree.clearMetadata: descendants first, through the cached child list only.
ClearMetadata(m, n, recursive) ==
  LET m0 == GetMetadata(m, n)
      m1 == IF recursive /\ IsDef(m0[n].children)
            THEN ClearAll(m0, Val(m0[n].children), recursive)
            ELSE m0
  IN [m1 EXCEPT ![n] = ResetFields(m1[n])]

\* One onChangeEmitter.fire(arg); a listener runs synchronously and sees the
\* root collection and the promise marker as they are at that moment.
Note(kind, nodes, d, p) == [kind |-> kind, nodes |-> nodes, data |-> d, promise |-> p]

SetOf(seq) == {seq[i] : i \in 1..Len(seq)}

\* The nodes whose metadata clearMetadata(n, recursive) resets, lines 226-233:
\* n and, when recursive, what its cached child lists reach.
RECURSIVE Cleared(_, _, _)
Cleared(m, n, recursive) ==
  {n} \cup (IF recursive /\ IsDef(m[n].children)
            THEN UNION {Cleared(m, c, recursive) : c \in SetOf(Val(m[n].children))}
            ELSE {})

\* The same for a list of nodes, as the loops of lines 187 and 228 clear it.
ClearedAll(m, nodes, recursive) == UNION {Cleared(m, n, recursive) : n \in SetOf(nodes)}

\* The ghost of clearMetadata on the suspended calls: the getTreeItem and
\* getChildren calls pending on a cleared node are marked stale.
MarkStale(f, gone) ==
  IF f.kind \in {"item", "checked", "kids"} /\ f.node \in gone
  THEN [f EXCEPT !.stale = TRUE] ELSE f
Overtaken(fr, gone) ==
  IF ~history THEN fr
  ELSE LET marked == {MarkStale(f, gone) : f \in BagToSet(fr)}
           fresh(g) == [g EXCEPT !.stale = FALSE]
       IN [g \in marked |->
             IF g = MarkStale(fresh(g), gone) /\ g # fresh(g)
             THEN CopiesIn(g, fr) + CopiesIn(fresh(g), fr)
             ELSE CopiesIn(g, fr)]

UnusedPromises == {p \in PromiseIds : promises[p].st = "unused"}
NextPromise == CHOOSE p \in UnusedPromises : \A q \in UnusedPromises : p <= q

\* A suspended call whose awaited root promise has settled: its continuation is
\* a queued microtask, which runs before the event loop starts any other call.
Ready(f) == /\ f \in Suspended
            /\ f.kind \in {"setData", "root"}
            /\ promises[f.p].st \in {"ok", "failed"}
Quiet == \A f \in Suspended : ~Ready(f)

\* The generator object returned by iterateNodes (lines 207-215) before its
\* first step: st is "idle" (no generator), "new" (created, body not yet
\* entered), "running" or "done"; stack holds the arrays the for-of loops of
\* lines 209 and 213 still walk, innermost last; fresh is the node yielded by
\* the latest step, whose child list line 213 has not read yet; out is what
\* the generator has yielded.  dirty is a ghost: the root collection or a
\* cached child list was replaced while the generator was live.
NoIter == [st |-> "idle", root |-> Undef, stack |-> <<>>, fresh |-> NoNode,
           out |-> <<>>, dirty |-> FALSE]

\* The ghost of a step outside the generator: it marks a live generator when
\* the step replaces the root collection or a cached child list.
Disturbed(it, m2, d2) ==
  IF /\ it.st \in {"new", "running"}
     /\ \/ d2 # data
        \/ \E n \in Nodes : m2[n].children # meta[n].children
  THEN [it EXCEPT !.dirty = TRUE]
  ELSE it


-----------------------------------------------------------------------------
(* Root population: Tree.setData, Tree.getChildren(undefined) *)

\* What the notification fired by setData shows to its listeners: line 165
\* runs before lines 166-175 replace the marker or the collection.
\* A variant of SetDataNotes that notifies after the assignments.
SetDataNotesAfter(d, p, newData, newPromise) == <<Note("all", <<>>, newData, newPromise)>>

\* setData, line 165: one whole-tree notification, fired before lines 166-175.
SetDataNotes(d, p, newData, newPromise) == <<Note("all", <<>>, d, p)>>

\* setData(data: T[], recursive): lines 164, 165, 174.
SetDataArray(v, recursive) ==
  /\ Quiet
  /\ meta' = ClearAll(meta, data, recursive)
  /\ data' = v
  /\ last' = [NoLast EXCEPT !.op = "setData", !.rec = recursive,
                            !.fired = SetDataNotes(data, promise, v, promise)]
  /\ latest' = 0
  /\ firstItem' = [n \in Nodes |-> Undef]
  /\ firstKids' = [n \in Nodes |-> Undef]
  /\ frames' = Overtaken(frames, ClearedAll(meta, data, recursive))
  /\ UNCHANGED <<promise, promises, transfer, dragged, lastParent, history>>
  /\ iter' = Disturbed(iter, meta', data')
  /\ UNCHANGED <<prog, act>>

\* setData(data: Promise<T[]>, recursive): lines 164-169, up to the await.
SetDataPromise(recursive) ==
  /\ Quiet
  /\ UnusedPromises # {}
  /\ CanSuspend
  /\ LET p == NextPromise IN
     /\ meta' = ClearAll(meta, data, recursive)
     /\ promise' = p
     /\ promises' = [promises EXCEPT ![p].st = "pending"]
     /\ frames' = Overtaken(frames, ClearedAll(meta, data, recursive))
                    (+) SetToBag({Frame("setData", NoNode, p, Undef)})
     /\ last' = [NoLast EXCEPT !.op = "setData", !.rec = recursive, !.p = p,
                               !.fired = SetDataNotes(data, promise, data, p)]
     /\ latest' = p
  /\ firstItem' = [n \in Nodes |-> Undef]
  /\ firstKids' = [n \in Nodes |-> Undef]
  /\ UNCHANGED <<data, transfer, dragged, lastParent, history>>
  /\ iter' = Disturbed(iter, meta', data')
  /\ UNCHANGED <<prog, act>>

\* The caller's promise settles: it resolves with a root collection or rejects.
Settle(p, ok, v) ==
  /\ Quiet
  /\ promises[p].st = "pending"
  /\ promises' = [promises EXCEPT ![p] = IF ok THEN [st |-> "ok", val |-> v]
                                              ELSE [st |-> "failed", val |-> <<>>]]
  /\ last' = [NoLast EXCEPT !.op = "settle", !.p = p]
  /\ UNCHANGED <<data, promise, meta, frames, transfer, dragged, latest, lastParent, firstItem, firstKids, history>>
  /\ iter' = Disturbed(iter, meta', data')
  /\ UNCHANGED <<prog, act>>

\* The root collection after `this.data = await data` (line 169): assigned
\* when the promise resolved, left alone when it rejected.
SetDataResult(d, pr) == IF pr.st = "ok" THEN pr.val ELSE d

\* A variant of SetDataMarker without the finally block.
SetDataMarkerKept(mk, p) == mk

\* The promise marker after the finally block (lines 170-172), for the call
\* that awaited promise p while the marker was mk.
SetDataMarker(mk, p) == 0

\* setData resumes after `await data`: lines 169-172.  A rejection leaves
\* the async function and so rejects the promise setData returned.
SetDataDone(f) ==
  /\ Ready(f)
  /\ f.kind = "setData"
  /\ LET p == f.p
         pr == promises[p] IN
     /\ data' = SetDataResult(data, pr)
     /\ promise' = SetDataMarker(promise, p)
     /\ last' = [NoLast EXCEPT !.op = "setDataDone", !.p = p,
                               !.err = IF pr.st = "ok" THEN "none" ELSE Raised,
                               !.cause = IF pr.st = "ok" THEN "none" ELSE "promise"]
  /\ frames' = Resume(f)
  /\ UNCHANGED <<promises, meta, transfer, dragged, latest, lastParent, firstItem, firstKids, history>>
  /\ iter' = Disturbed(iter, meta', data')
  /\ UNCHANGED <<prog, act>>

\* getChildren(undefined), lines 342-347: awaits the marked promise, if any.
GetRoot ==
  /\ Quiet
  /\ IF promise # 0
     THEN /\ CanSuspend
          /\ frames' = Suspend(Frame("root", NoNode, promise, Undef))
          /\ last' = [NoLast EXCEPT !.op = "getRootAwait", !.p = promise]
     ELSE /\ frames' = frames
          /\ last' = [NoLast EXCEPT !.op = "getRoot", !.ret = Some(data)]
  /\ UNCHANGED <<data, promise, promises, meta, transfer, dragged, latest, lastParent, firstItem, firstKids, history>>
  /\ iter' = Disturbed(iter, meta', data')
  /\ UNCHANGED <<prog, act>>

\* getChildren(undefined) resumes after `await this.promise`: lines 344-346;
\* a rejection is caught by reportErrorsNoRethrow (part_006 lines 37-45).
GetRootDone(f) ==
  /\ Ready(f)
  /\ f.kind = "root"
  /\ LET p == f.p
         pr == promises[p] IN
     /\ data' = IF pr.st = "ok" THEN pr.val ELSE data
     /\ last' = IF pr.st = "ok"
                THEN [NoLast EXCEPT !.op = "getRoot", !.p = p, !.ret = Some(pr.val)]
                ELSE [NoLast EXCEPT !.op = "getRoot", !.p = p, !.cause = "promise",
                                     !.err = ReportErrorsNoRethrow]
  /\ frames' = Resume(f)
  /\ UNCHANGED <<promise, promises, meta, transfer, dragged, latest, lastParent, firstItem, firstKids, history>>
  /\ iter' = Disturbed(iter, meta', data')
  /\ UNCHANGED <<prog, act>>

-----------------------------------------------------------------------------
(* Rendering: Tree.getTreeItem *)

\* node:path join of plain segments keeps them in order.
Join(segs) == segs

\* Uri.joinPath(uri, ...segs): the segments follow the path the uri has.
JoinPath(uri, segs) == [uri EXCEPT !.path = uri.path \o Join(segs)]

\* A variant of appendPath that puts the segments in front.
AppendPathInFront(uri, segs) == [uri EXCEPT !.path = Join(segs) \o uri.path]

\* URI.appendPath (uri.ts lines 6-11).
AppendPath(uri, segs) ==
  IF uri.path = <<>> THEN [uri EXCEPT !.path = Join(segs)] ELSE JoinPath(uri, segs)

\* A variant of WithChecked that keeps what the renderer set.
WithCheckedKept(n, item, checked) == item

\* Lines 274-277: the checkbox-getter, when the node has one, overwrites the
\* renderer's checkboxState.
WithChecked(n, item, checked) ==
  IF HasGetChecked(n)
  THEN [item EXCEPT !.checkbox = IF checked THEN "checked" ELSE "unchecked"]
  ELSE item

\* Lines 280-291: default the context tag from the node class.
WithContext(n, item) ==
  IF item.ctx = "unset" /\ ViewItemId(n) # "unset"
  THEN [item EXCEPT !.ctx = ViewItemId(n)]
  ELSE item

\* Line 293: the parent's cached item, read after the awaits.
ParentItem(m, n) == IF m[n].parent # NoNode THEN m[m[n].parent].treeItem ELSE Undef

\* A variant of ResolveUri without the three assertions.
ResolveUriUnchecked(m, n, item) == [ok |-> TRUE, item |-> item]

\* Lines 294-313: the locator from the parent's cached item and the node's
\* path segments; ok = FALSE when one of the three assertions fails.
ResolveUri(m, n, item) ==
  LET parentItem == ParentItem(m, n)
      segs == PathSegments(n)
  IN IF Len(segs) = 0 THEN [ok |-> TRUE, item |-> item]
     ELSE IF IsDef(item.uri) THEN [ok |-> FALSE, item |-> item]
     ELSE IF m[n].parent = NoNode THEN [ok |-> FALSE, item |-> item]
     ELSE IF ~IsDef(parentItem) THEN [ok |-> FALSE, item |-> item]
     ELSE IF ~IsDef(Val(parentItem).uri) THEN [ok |-> FALSE, item |-> item]
     ELSE [ok |-> TRUE,
           item |-> [item EXCEPT !.uri = Some(AppendPath(Val(Val(parentItem).uri), segs))]]

\* getTreeItem(node), lines 270-272: cache hit, or invoke the renderer and await.
GetTreeItem(n) ==
  /\ Quiet
  /\ IF IsDef(meta[n].treeItem)
     THEN /\ frames' = frames
          /\ last' = [NoLast EXCEPT !.op = "getTreeItem", !.node = n, !.hit = TRUE,
                                    !.ret = meta[n].treeItem]
     ELSE /\ CanSuspend
          /\ frames' = Suspend(Frame("item", n, 0, Undef))
          /\ last' = [NoLast EXCEPT !.op = "getTreeItemAwait", !.node = n,
                                    !.called = {"getTreeItem"}]
  /\ meta' = GetMetadata(meta, n)
  /\ UNCHANGED <<data, promise, promises, transfer, dragged, latest, lastParent, firstItem, firstKids, history>>
  /\ iter' = Disturbed(iter, meta', data')
  /\ UNCHANGED <<prog, act>>

\* A variant of DecorationsFired that fires for every rendered node.
DecorationsFiredAlways(n, item) == <<item.uri>>

\* Lines 317-324: a node with a decoration provider fires the decoration
\* channel once, with the locator of the item just cached.
DecorationsFired(n, item) == IF HasGetDecorations(n) THEN <<item.uri>> ELSE <<>>

\* got is <<what the checkbox-getter returned>>, <<>> when there is no getter.
\* Lines 280-326, after the last await: augment, resolve the locator, cache,
\* announce decorations, return.  Errors are reported and rethrown
\* (reportErrorsAndRethrow, part_006 lines 27-35).
FinishItem(f, n, item0, got) ==
  LET item1 == WithContext(n, item0)
      par == meta[n].parent
      m0 == IF par # NoNode THEN GetMetadata(meta, par) ELSE meta
      r == ResolveUri(meta, n, item1)
      failed == [NoLast EXCEPT !.op = "getTreeItem", !.node = n,
                               !.err = ReportErrorsAndRethrow, !.cause = "assertion",
                               !.fin = TRUE, !.raw = item0.uri, !.got = got]
  IN /\ frames' = Resume(f)
     /\ IF ~r.ok
        THEN /\ meta' = m0
             /\ last' = failed
             /\ firstItem' = firstItem
        ELSE /\ meta' = [m0 EXCEPT ![n].treeItem = Some(r.item)]
             /\ IF HasGetDecorations(n) /\ ~IsDef(r.item.uri)
                THEN /\ last' = failed
                     /\ firstItem' = firstItem
                ELSE /\ last' = [NoLast EXCEPT !.op = "getTreeItem", !.node = n,
                                   !.ret = Some(r.item), !.fin = TRUE, !.raw = item0.uri,
                                   !.got = got,
                                   !.deco = DecorationsFired(n, r.item)]
                     /\ firstItem' = IF history /\ ~IsDef(firstItem[n])
                                     THEN [firstItem EXCEPT ![n] = Some(r.item)]
                                     ELSE firstItem
     /\ UNCHANGED <<data, promise, promises, transfer, dragged, latest, lastParent, firstKids, history>>
     /\ iter' = Disturbed(iter, meta', data')
     /\ UNCHANGED <<prog, act>>

\* The node's renderer settles: getTreeItem resumes after line 272.
RenderDone(f, ok, uri) ==
  /\ Quiet
  /\ f \in Suspended
  /\ f.kind = "item"
  /\ LET n == f.node
         item == Item(uri, RendererCheckbox(n), RendererContext(n))
     IN IF ~ok
        THEN /\ frames' = Resume(f)
             /\ last' = [NoLast EXCEPT !.op = "getTreeItem", !.node = n,
                                       !.err = ReportErrorsAndRethrow, !.cause = "renderer"]
             /\ UNCHANGED <<data, promise, promises, meta, transfer, dragged, latest, lastParent, firstItem, firstKids, history>>
             /\ iter' = Disturbed(iter, meta', data')
             /\ UNCHANGED <<prog, act>>
        ELSE IF HasGetChecked(n)
        THEN /\ frames' = Resume(f) (+)
                          SetToBag({[Frame("checked", n, 0, uri) EXCEPT !.stale = f.stale]})
             /\ last' = [NoLast EXCEPT !.op = "getTreeItemAwait", !.node = n,
                                       !.called = {"getChecked"}]
             /\ UNCHANGED <<data, promise, promises, meta, transfer, dragged, latest, lastParent, firstItem, firstKids, history>>
             /\ iter' = Disturbed(iter, meta', data')
             /\ UNCHANGED <<prog, act>>
        ELSE FinishItem(f, n, item, Undef)

\* The node's checkbox-getter settles: getTreeItem resumes after line 275.
CheckedDone(f, ok, checked) ==
  /\ Quiet
  /\ f \in Suspended
  /\ f.kind = "checked"
  /\ LET n == f.node
         item == Item(f.uri, RendererCheckbox(n), RendererContext(n))
     IN IF ~ok
        THEN /\ frames' = Resume(f)
             /\ last' = [NoLast EXCEPT !.op = "getTreeItem", !.node = n,
                                       !.err = ReportErrorsAndRethrow, !.cause = "checked"]
             /\ UNCHANGED <<data, promise, promises, meta, transfer, dragged, latest, lastParent, firstItem, firstKids, history>>
             /\ iter' = Disturbed(iter, meta', data')
             /\ UNCHANGED <<prog, act>>
        ELSE FinishItem(f, n, WithChecked(n, item, checked), Some(checked))

-----------------------------------------------------------------------------
(* Children: Tree.getChildren(node), Tree.getParent *)

\* A variant of SetParents that tags the first returned child only.
SetParentsOfFirst(m, n, kids) ==
  [c \in Nodes |-> IF kids # <<>> /\ c = Head(kids)
                   THEN [m[c] EXCEPT !.exists = TRUE, !.parent = n]
                   ELSE m[c]]

\* Lines 350-351: every returned child gets `node` as its parent back-reference.
SetParents(m, n, kids) ==
  [c \in Nodes |-> IF c \in SetOf(kids)
                   THEN [m[c] EXCEPT !.exists = TRUE, !.parent = n]
                   ELSE m[c]]

\* A variant of ChildrenToTag that tags a node when the producer returned
\* nothing.
ChildrenToTagDefault(res) == IF IsDef(res) THEN Val(res) ELSE <<"b">>

\* Line 350, `if (metadata.children)`: the children whose parent is set;
\* none when the producer returned nothing.
ChildrenToTag(res) == IF IsDef(res) THEN Val(res) ELSE <<>>

\* getChildren(node), lines 335-338 and 348-349: cache hit, or invoke the
\* children-producer and await; without a producer nothing is cached.
GetChildren(n) ==
  /\ Quiet
  /\ IF IsDef(meta[n].children)
     THEN /\ frames' = frames
          /\ meta' = GetMetadata(meta, n)
          /\ last' = [NoLast EXCEPT !.op = "getChildren", !.node = n, !.hit = TRUE,
                                    !.ret = meta[n].children]
     ELSE IF HasGetChildren(n)
     THEN /\ CanSuspend
          /\ frames' = Suspend(Frame("kids", n, 0, Undef))
          /\ meta' = GetMetadata(meta, n)
          /\ last' = [NoLast EXCEPT !.op = "getChildrenAwait", !.node = n,
                                    !.called = {"getChildren"}]
     ELSE /\ frames' = frames
          /\ meta' = [GetMetadata(meta, n) EXCEPT ![n].children = Undef]
          /\ last' = [NoLast EXCEPT !.op = "getChildren", !.node = n]
  /\ UNCHANGED <<data, promise, promises, transfer, dragged, latest, lastParent, firstItem, firstKids, history>>
  /\ iter' = Disturbed(iter, meta', data')
  /\ UNCHANGED <<prog, act>>

\* The children-producer settles: getChildren resumes after line 349.
\* res is <<list>>, or <<>> when the producer returned nothing; a failure is
\* caught by reportErrorsNoRethrow.
KidsDone(f, ok, res) ==
  /\ Quiet
  /\ f \in Suspended
  /\ f.kind = "kids"
  /\ frames' = Resume(f)
  /\ LET n == f.node IN
     IF ~ok
     THEN /\ last' = [NoLast EXCEPT !.op = "getChildren", !.node = n,
                                    !.err = ReportErrorsNoRethrow, !.cause = "producer"]
          /\ UNCHANGED <<meta, lastParent, firstItem, firstKids>>
     ELSE /\ meta' = SetParents([meta EXCEPT ![n].children = res], n, ChildrenToTag(res))
          /\ last' = [NoLast EXCEPT !.op = "getChildren", !.node = n, !.ret = res]
          /\ lastParent' = [c \in Nodes |-> IF c \in SetOf(ChildrenToTag(res)) THEN n
                                                ELSE lastParent[c]]
          /\ firstKids' = IF history /\ IsDef(res) /\ ~IsDef(firstKids[n])
                          THEN [firstKids EXCEPT ![n] = res]
                          ELSE firstKids
  /\ UNCHANGED <<data, promise, promises, transfer, dragged, latest, firstItem, history>>
  /\ iter' = Disturbed(iter, meta', data')
  /\ UNCHANGED <<prog, act>>

\* getParent(node), lines 358-360.
GetParent(n) ==
  /\ Quiet
  /\ meta' = GetMetadata(meta, n)
  /\ last' = [NoLast EXCEPT !.op = "getParent", !.node = n, !.ret = Some(meta[n].parent)]
  /\ UNCHANGED <<data, promise, promises, frames, transfer, dragged, latest, lastParent, firstItem, firstKids, history>>
  /\ iter' = Disturbed(iter, meta', data')
  /\ UNCHANGED <<prog, act>>

-----------------------------------------------------------------------------
(* Invalidation: Tree.dataChanged *)

\* The nodes whose parent back-references lead up to n.
RECURSIVE UnderByParent(_, _, _)
UnderByParent(m, n, seen) ==
  LET kids == {c \in Nodes \ seen : m[c].parent = n}
  IN kids \cup UNION {UnderByParent(m, c, seen \cup kids) : c \in kids}

\* The nodes reachable from n through cached child lists.
RECURSIVE UnderByCache(_, _, _)
UnderByCache(m, n, seen) ==
  LET kids == {c \in Nodes \ seen : IsDef(m[n].children) /\ c \in SetOf(Val(m[n].children))}
  IN kids \cup UNION {UnderByCache(m, c, seen \cup kids) : c \in kids}

Descendants(m, n) == UnderByParent(m, n, {n}) \cup UnderByCache(m, n, {n})

\* The nodes a dataChanged call invalidates: every node for undefined; else the
\* given nodes and, when recursive, their descendants.
Invalidated(kind, nodes, recursive) ==
  IF kind = "all" THEN Nodes
  ELSE SetOf(nodes) \cup
         (IF recursive THEN UNION {Descendants(meta, n) : n \in SetOf(nodes)} ELSE {})

\* The nodes with a cached item, child list or decoration map.
CachedNodes(m) ==
  {n \in Nodes : IsDef(m[n].treeItem) \/ IsDef(m[n].children) \/ m[n].decorations}

\* A variant of DataChangedSeen that notifies before clearing.
DataChangedSeenBefore(before, after) == CachedNodes(before)

\* What a listener of the notification of line 188 finds cached: the fire
\* follows the clearMetadata loop of line 187.
DataChangedSeen(before, after) == CachedNodes(after)

\* dataChanged(node, recursive), lines 185-189.  kind is "all" (undefined),
\* "node" (one node) or "list" (an array of nodes).
DataChanged(kind, arg, recursive) ==
  /\ Quiet
  /\ LET nodes == IF kind = "all" THEN data ELSE arg
         gone == Invalidated(kind, arg, recursive)
     IN /\ meta' = ClearAll(meta, nodes, recursive)
        /\ last' = [NoLast EXCEPT !.op = "dataChanged", !.rec = recursive,
                      !.node = IF kind = "node" THEN arg[1] ELSE NoNode,
                      !.fired = <<Note(kind, arg, data, promise)>>,
                      !.arg = Some([kind |-> kind, nodes |-> arg]),
                      !.seen = DataChangedSeen(meta, ClearAll(meta, nodes, recursive))]
        /\ firstItem' = IF history
                        THEN [n \in Nodes |-> IF n \in gone THEN Undef ELSE firstItem[n]]
                        ELSE firstItem
        /\ firstKids' = IF history
                        THEN [n \in Nodes |-> IF n \in gone THEN Undef ELSE firstKids[n]]
                        ELSE firstKids
        /\ frames' = Overtaken(frames, ClearedAll(meta, nodes, recursive))
  /\ UNCHANGED <<data, promise, promises, transfer, dragged, latest, lastParent, history>>
  /\ iter' = Disturbed(iter, meta', data')
  /\ UNCHANGED <<prog, act>>

-----------------------------------------------------------------------------
(* Drag and drop: Tree.handleDrag, Tree.handleDrop *)

\* A variant of Uri.toString that leaves the path out.
UriToStringNoPath(u) == <<u.auth>>

\* Uri.toString(true): the authority followed by the path, as one string.
UriToString(u) == <<u.auth>> \o u.path

\* iterateNodes, lines 207-215: pre-order over the root collection and the
\* cached child lists.
RECURSIVE IterateNodes(_, _)
RECURSIVE IterateList(_, _)
IterateList(m, nodes) ==
  IF nodes = <<>> THEN <<>>
  ELSE IterateNodes(m, Head(nodes)) \o IterateList(m, Tail(nodes))
IterateNodes(m, root) ==
  <<root>> \o IterateList(m, IF IsDef(m[root].children) THEN Val(m[root].children)
                             ELSE <<>>)

\* A variant of ChildrenWhenReached that walks no child list.
ChildrenNever(m, n) == <<>>

\* Line 213: `this.getMetadata(root).children ?? []`, evaluated when the
\* generator is resumed after yielding root.
ChildrenWhenReached(m, n) ==
  IF IsDef(m[n].children) THEN Val(m[n].children) ELSE <<>>

\* The for-of loops of lines 209 and 213 that have no element left end, and
\* the generator of the enclosing level goes on.
RECURSIVE DropFinished(_)
DropFinished(stack) ==
  IF stack # <<>> /\ stack[Len(stack)] = <<>>
  THEN DropFinished(SubSeq(stack, 1, Len(stack) - 1))
  ELSE stack

\* iterateNodes(root?), line 207: calling a generator function creates the
\* generator and runs none of its body.
IterateStart(root) ==
  /\ Quiet
  /\ iter' = [NoIter EXCEPT !.st = "new", !.root = root]
  /\ last' = [NoLast EXCEPT !.op = "iterateNodes"]
  /\ UNCHANGED <<data, promise, promises, meta, frames, transfer, dragged, latest,
                 lastParent, firstItem, firstKids, history, prog, act>>

\* One next() on the generator, lines 208-214: the body runs up to its next
\* yield.  At the first step line 208 chooses between the root collection
\* (line 209 reads this.data now) and the given root (line 212); at a later
\* step line 213 reads the child list of the node yielded before.
IterateNext ==
  /\ Quiet
  /\ iter.st \in {"new", "running"}
  /\ LET entered == IF iter.st = "new"
                    THEN <<IF IsDef(iter.root) THEN <<Val(iter.root)>> ELSE data>>
                    ELSE IF iter.fresh # NoNode
                         THEN Append(iter.stack, ChildrenWhenReached(meta, iter.fresh))
                         ELSE iter.stack
         stack == DropFinished(entered)
         top == Len(stack)
     IN /\ meta' = IF iter.st = "running" /\ iter.fresh # NoNode
                   THEN GetMetadata(meta, iter.fresh) ELSE meta
        /\ IF stack = <<>>
           THEN /\ iter' = [iter EXCEPT !.st = "done", !.stack = <<>>, !.fresh = NoNode]
                /\ last' = [NoLast EXCEPT !.op = "iterateDone"]
           ELSE /\ iter' = [iter EXCEPT !.st = "running",
                                        !.stack = [stack EXCEPT ![top] = Tail(stack[top])],
                                        !.fresh = Head(stack[top]),
                                        !.out = Append(iter.out, Head(stack[top]))]
                /\ last' = [NoLast EXCEPT !.op = "iterateNext", !.node = Head(stack[top])]
  /\ UNCHANGED <<data, promise, promises, frames, transfer, dragged, latest,
                 lastParent, firstItem, firstKids, history, prog, act>>


\* The condition of lines 414-416: the node's cached item has a locator whose
\* string form is str.
HasLocator(m, n, str) ==
  /\ IsDef(m[n].treeItem)
  /\ IsDef(Val(m[n].treeItem).uri)
  /\ UriToString(Val(Val(m[n].treeItem).uri)) = str

\* findFirstNode, lines 217-220: position in the iteration order of the first
\* node with that locator, 0 when there is none.
FindFirstNode(m, order, str) ==
  LET hits == {i \in 1..Len(order) : HasLocator(m, order[i], str)}
  IN IF hits = {} THEN 0 ELSE CHOOSE i \in hits : \A j \in hits : i <= j

\* getMetadata on every node the search visited.
Touch(m, visited) ==
  [n \in Nodes |-> IF n \in visited THEN [m[n] EXCEPT !.exists = TRUE] ELSE m[n]]

\* handleDrag(sources, dataTransfer), lines 390-406.  go is what the node's
\* onDrag returns (kept in last.ret when it was called; last.arg is sources).  The DataTransfer of a new drag starts empty.  Failed
\* assertions are caught by reportErrorsNoRethrow.
HandleDrag(sources, go) ==
  /\ Quiet
  /\ LET n == sources[1]
         item == meta[n].treeItem
         reported == [NoLast EXCEPT !.op = "handleDrag", !.node = n,
                                    !.arg = Some(sources),
                                    !.err = ReportErrorsNoRethrow, !.cause = "assertion"]
         nothing == [NoLast EXCEPT !.op = "handleDrag", !.node = n,
                                   !.arg = Some(sources)]
     IN IF Len(sources) # 1
        THEN meta' = meta /\ transfer' = Undef /\ dragged' = Undef /\ last' = reported
        ELSE IF ~HasOnDrag(n)
        THEN meta' = meta /\ transfer' = Undef /\ dragged' = Undef /\ last' = nothing
        ELSE IF ~go
        THEN /\ meta' = meta /\ transfer' = Undef /\ dragged' = Undef
             /\ last' = [nothing EXCEPT !.called = {"onDrag"}, !.ret = Some(go)]
        ELSE IF ~IsDef(item) \/ ~IsDef(Val(item).uri)
        THEN /\ meta' = GetMetadata(meta, n) /\ transfer' = Undef /\ dragged' = Undef
             /\ last' = [reported EXCEPT !.called = {"onDrag"}, !.ret = Some(go)]
        ELSE /\ meta' = GetMetadata(meta, n)
             /\ transfer' = Some(UriToString(Val(Val(item).uri)))
             /\ dragged' = Some([node |-> n, uri |-> Val(Val(item).uri)])
             /\ last' = [nothing EXCEPT !.called = {"onDrag"}, !.ret = Some(go)]
  /\ UNCHANGED <<data, promise, promises, frames, latest, lastParent, firstItem,
                 firstKids, history>>
  /\ iter' = Disturbed(iter, meta', data')
  /\ UNCHANGED <<prog, act>>

\* handleDrop(target, dataTransfer), lines 408-426, up to `await target.onDrop`.
\* target is <<>> (dropped outside) or <<node>>.  A failed assertion is caught
\* by reportErrorsNoRethrow: handleError logs it and shows an error message.
HandleDrop(target) ==
  /\ Quiet
  /\ LET order == IterateList(meta, data)
         i == IF IsDef(transfer) THEN FindFirstNode(meta, order, Val(transfer)) ELSE 0
         visited == IF ~IsDef(transfer) THEN {}
                    ELSE IF i = 0 THEN SetOf(order)
                    ELSE {order[k] : k \in 1..i}
         t == IF IsDef(target) THEN Val(target) ELSE NoNode
         done == [NoLast EXCEPT !.op = "handleDrop", !.node = t]
     IN /\ meta' = Touch(meta, visited)
        /\ IF ~IsDef(transfer) \/ i = 0
           THEN /\ frames' = frames
                /\ last' = [done EXCEPT !.err = ReportErrorsNoRethrow, !.cause = "assertion"]
           ELSE IF ~IsDef(target)
           THEN frames' = frames /\ last' = done
           ELSE IF HasOnDrop(t)
           THEN /\ CanSuspend
                /\ frames' = Suspend(Frame("drop", t, 0, Undef))
                /\ last' = [done EXCEPT !.op = "handleDropAwait", !.called = {"onDrop"},
                                        !.arg = Some(order[i])]
           ELSE frames' = frames /\ last' = done
  /\ UNCHANGED <<data, promise, promises, transfer, dragged, latest, lastParent,
                 firstItem, firstKids, history>>
  /\ iter' = Disturbed(iter, meta', data')
  /\ UNCHANGED <<prog, act>>

\* The target's onDrop settles: handleDrop resumes after line 424; a failure
\* is caught by reportErrorsNoRethrow.
DropDone(f, ok) ==
  /\ Quiet
  /\ f \in Suspended
  /\ f.kind = "drop"
  /\ frames' = Resume(f)
  /\ last' = [NoLast EXCEPT !.op = "handleDropDone", !.node = f.node,
                            !.err = IF ok THEN "none" ELSE ReportErrorsNoRethrow,
                            !.cause = IF ok THEN "none" ELSE "onDrop"]
  /\ UNCHANGED <<data, promise, promises, meta, transfer, dragged, latest, lastParent,
                 firstItem, firstKids, history>>
  /\ iter' = Disturbed(iter, meta', data')
  /\ UNCHANGED <<prog, act>>

-----------------------------------------------------------------------------
(* Decorations: provideFileDecoration (Tree.createView), Tree.updateDecorations *)

\* URI.equals (uri.ts lines 19-21): the string forms are equal.
UriEquals(u, v) == UriToString(u) = UriToString(v)

\* The locators the host asks decorations for.
DecoUris == {BaseUri, [auth |-> "base", path |-> <<"x", "y">>]}

\* provideFileDecoration(uri), lines 134-151.  some: the node's getDecorations
\* returns a map (else undefined); known: every name of the map is one of the
\* registered decoration names (else the assert of lines 143-147 throws, after
\* the map was cached; no wrapper catches it).
ProvideFileDecoration(uri, some, known) ==
  /\ Quiet
  /\ LET order == IterateList(meta, data)
         i == FindFirstNode(meta, order, UriToString(uri))
         visited == IF i = 0 THEN SetOf(order) ELSE {order[k] : k \in 1..i}
         m0 == Touch(meta, visited)
         done == [NoLast EXCEPT !.op = "provideFileDecoration"]
     IN IF i = 0
        THEN meta' = m0 /\ last' = done
        ELSE LET n == order[i] IN
             IF ~m0[n].decorations /\ HasGetDecorations(n)
             THEN /\ meta' = [m0 EXCEPT ![n].decorations = some]
                  /\ last' = IF some /\ ~known
                             THEN [done EXCEPT !.node = n, !.called = {"getDecorations"},
                                               !.err = Raised, !.cause = "assertion"]
                             ELSE [done EXCEPT !.node = n, !.called = {"getDecorations"},
                                               !.ret = IF some THEN Some("decoration")
                                                       ELSE Undef]
             ELSE /\ meta' = m0
                  /\ last' = [done EXCEPT !.node = n, !.hit = m0[n].decorations,
                                          !.ret = IF m0[n].decorations
                                                  THEN Some("decoration") ELSE Undef]
  /\ UNCHANGED <<data, promise, promises, frames, transfer, dragged, latest, lastParent,
                 firstItem, firstKids, history>>
  /\ iter' = Disturbed(iter, meta', data')
  /\ UNCHANGED <<prog, act>>

\* fail.assertNotNull(b) for a boolean b, as at lines 193-200: a boolean is
\* neither null nor undefined, so the assertion passes whatever b is.
AssertNotNullBoolean(b) == TRUE

\* A variant of the locator read that never finds one.
CachedUriNone(m, n) == Undef

\* The locator of n's cached item: metadata.treeItem?.resourceUri.
CachedUri(m, n) == IF IsDef(m[n].treeItem) THEN Val(m[n].treeItem).uri ELSE Undef

\* The body of updateDecorations, lines 192-204, with its recursion into the
\* parent: the metadata afterwards, the locators fired on the decoration
\* channel in order, and whether an assertion failed.
RECURSIVE Decorate(_, _, _)
Decorate(m, n, propogateToParent) ==
  LET m0 == GetMetadata(m, n)
      ok == /\ AssertNotNullBoolean(~IsDef(m0[n].treeItem))
            /\ AssertNotNullBoolean(~IsDef(CachedUri(m0, n)))
      m1 == [m0 EXCEPT ![n].decorations = FALSE]
      up == IF propogateToParent /\ m1[n].parent # NoNode
            THEN Decorate(m1, m1[n].parent, propogateToParent)
            ELSE [m |-> m1, fired |-> <<>>, ok |-> TRUE]
  IN IF ~ok THEN [m |-> m0, fired |-> <<>>, ok |-> FALSE]
     ELSE [m |-> up.m, fired |-> <<CachedUri(m0, n)>> \o up.fired, ok |-> up.ok]

\* updateDecorations(node, propogateToParent), lines 191-205.  No wrapper:
\* a failed assertion leaves the call.
UpdateDecorations(n, propogateToParent) ==
  /\ Quiet
  /\ LET r == Decorate(meta, n, propogateToParent) IN
     /\ meta' = r.m
     /\ last' = [NoLast EXCEPT !.op = "updateDecorations", !.node = n,
                               !.rec = propogateToParent, !.deco = r.fired,
                               !.err = IF r.ok THEN "none" ELSE Raised,
                               !.cause = IF r.ok THEN "none" ELSE "assertion"]
  /\ UNCHANGED <<data, promise, promises, frames, transfer, dragged, latest, lastParent,
                 firstItem, firstKids, history>>
  /\ iter' = Disturbed(iter, meta', data')
  /\ UNCHANGED <<prog, act>>

-----------------------------------------------------------------------------
(* Progress: one host notification shared by overlapping with() calls *)

Labels == {"fetch", "build"}

\* A Progress after construction (field initializers), with the host side: the
\* number of notifications window.withProgress has opened, and per
\* notification how often its promise was resolved and the message last
\* reported to it.  thenable, signal, progress and dismiss hold the number of
\* the notification they belong to.  calls are the with() calls suspended at
\* their await; done is the outcome of the call that ended last.
NoProgress ==
  [pending |-> {}, nrFinished |-> 0, percentage |-> <<0, 1>>,
   thenable |-> Undef, signal |-> Undef, progress |-> Undef, dismiss |-> Undef,
   nextId |-> 1, calls |-> {},
   opened |-> 0, resolved |-> [k \in 1..MaxWith |-> 0],
   message |-> [k \in 1..MaxWith |-> Undef],
   done |-> Undef]

\* updateProgress: nothing without a progress handle; else the label of the
\* only pending operation, or finished/total, is reported, and percentage
\* becomes finished/total (kept as the pair of the two numbers).
UpdateProgress(st) ==
  IF ~IsDef(st.progress) THEN st
  ELSE LET nrPending == Cardinality(st.pending)
           total == nrPending + st.nrFinished
           message == IF nrPending = 1
                      THEN <<(CHOOSE e \in st.pending : TRUE).label>>
                      ELSE <<st.nrFinished, total>>
       IN [st EXCEPT !.message[Val(st.progress)] = Some(message),
                     !.percentage = <<st.nrFinished, total>>]

\* A variant of the finally block that dismisses the notification whenever an
\* operation finishes.
FinallyAlwaysDismiss(st, id, outcome) ==
  LET s1 == [st EXCEPT !.nrFinished = st.nrFinished + 1,
                       !.pending = {e \in st.pending : e.id # id}]
      s2 == UpdateProgress(s1)
  IN IF ~IsDef(s2.dismiss) THEN [s2 EXCEPT !.done = Some([id |-> id, outcome |-> "TypeError"])]
     ELSE [s2 EXCEPT !.resolved[Val(s2.dismiss)] = @ + 1,
                     !.dismiss = Undef, !.signal = Undef, !.thenable = Undef,
                     !.progress = Undef, !.nrFinished = 0,
                     !.done = Some([id |-> id, outcome |-> outcome])]

\* The finally block of with(): the operation is counted as finished and taken
\* out of pending (the assertion fails when it was not there); when nothing is
\* pending the notification's promise is resolved and the fields are reset.
\* An error thrown here replaces the outcome of the operation.
Finally(st, id, outcome) ==
  LET s1 == [st EXCEPT !.nrFinished = st.nrFinished + 1,
                       !.pending = {e \in st.pending : e.id # id}]
      s2 == UpdateProgress(s1)
  IN IF s1.pending = st.pending
     THEN [s1 EXCEPT !.done = Some([id |-> id, outcome |-> "assertion"])]
     ELSE IF s2.pending # {}
     THEN [s2 EXCEPT !.done = Some([id |-> id, outcome |-> outcome])]
     ELSE IF ~IsDef(s2.dismiss)
     THEN [s2 EXCEPT !.done = Some([id |-> id, outcome |-> "TypeError"])]
     ELSE [s2 EXCEPT !.resolved[Val(s2.dismiss)] = @ + 1,
                     !.dismiss = Undef, !.signal = Undef, !.thenable = Undef,
                     !.progress = Undef, !.nrFinished = 0,
                     !.done = Some([id |-> id, outcome |-> outcome])]

\* with(label, func) up to its await: the operation is registered under a
\* fresh id; without a thenable, window.withProgress opens a notification and
\* runs the callback at once (as the comment before the assertNotNull assumes),
\* which sets signal, progress and dismiss.  func is then called: when it
\* throws before returning a promise, the finally block runs in the same
\* step; else the call is suspended.
With(label, throws) ==
  /\ prog.nextId <= MaxWith
  /\ LET id == prog.nextId
         s0 == [prog EXCEPT !.nextId = id + 1,
                            !.pending = prog.pending \cup {[id |-> id, label |-> label]}]
         k == prog.opened + 1
         opening == ~IsDef(s0.thenable)
         s1 == IF opening /\ ~IsDef(s0.signal)
               THEN UpdateProgress([s0 EXCEPT !.opened = k, !.thenable = Some(k),
                                              !.signal = Some(k), !.progress = Some(k),
                                              !.dismiss = Some(k)])
               ELSE s0
         s2 == UpdateProgress(s1)
     IN prog' = IF opening /\ IsDef(s0.signal)
                THEN [s0 EXCEPT !.done = Some([id |-> id, outcome |-> "assertion"])]
                ELSE IF ~IsDef(s2.signal)
                THEN [s2 EXCEPT !.done = Some([id |-> id, outcome |-> "assertion"])]
                ELSE IF throws THEN Finally(s2, id, "error")
                ELSE [s2 EXCEPT !.calls = s2.calls \cup {id}, !.done = Undef]
  /\ UNCHANGED treeVars
  /\ UNCHANGED act

\* The promise returned by func settles: with() resumes in its finally block
\* and returns the value or throws the error of func.
WithDone(id, ok) ==
  /\ id \in prog.calls
  /\ prog' = Finally([prog EXCEPT !.calls = prog.calls \ {id}], id,
                     IF ok THEN "value" ELSE "error")
  /\ UNCHANGED treeVars
  /\ UNCHANGED act

-----------------------------------------------------------------------------
(* Activity: one Task and notification shared by overlapping run() calls *)

\* An Activity after construction, with the Task objects runTask has created
\* (one per notification the host opened): per task its pending subtasks,
\* whether it was disposed, how often the promise that keeps its notification
\* open was resolved, and the message last reported.  task and resolve hold
\* the number of the task they belong to.  runs are the run() calls suspended
\* in runSubtask, each with the task it was started on; done is the outcome of
\* the call that ended last.
NoActivity ==
  [task |-> Undef, resolve |-> Undef, nextRun |-> 1, runs |-> {},
   tasks |-> 0,
   pending |-> [t \in 1..MaxRun |-> {}],
   disposed |-> [t \in 1..MaxRun |-> FALSE],
   resolved |-> [t \in 1..MaxRun |-> 0],
   message |-> [t \in 1..MaxRun |-> Undef],
   done |-> Undef]

\* Task.updateProgress: the number of pending subtasks, the only one's
\* subtitle, or the empty message.
TaskUpdateProgress(st, t) ==
  LET size == Cardinality(st.pending[t])
  IN [st EXCEPT !.message[t] = Some(IF size > 1 THEN <<size, "pending">>
                                    ELSE IF size = 1 THEN <<"subtitle">>
                                    ELSE <<>>)]

\* Task.hasPending.
HasPending(st, t) == st.pending[t] # {}

\* The finally block of Activity.run, lines 91-95: it reads this.task as it is
\* now, resolves the notification's promise when that task has nothing
\* pending, and unsets task and resolve.  Reading hasPending of an unset task,
\* or calling an unset resolve, throws a TypeError that replaces the outcome
\* of the call.  Resolving ends runTask's callback, which disposes the task.
RunFinally(st, id, outcome) ==
  IF ~IsDef(st.task)
  THEN [st EXCEPT !.done = Some([id |-> id, outcome |-> "TypeError"])]
  ELSE LET t == Val(st.task) IN
       IF HasPending(st, t)
       THEN [st EXCEPT !.task = Undef, !.resolve = Undef,
                       !.done = Some([id |-> id, outcome |-> outcome])]
       ELSE IF ~IsDef(st.resolve)
       THEN [st EXCEPT !.done = Some([id |-> id, outcome |-> "TypeError"])]
       ELSE [st EXCEPT !.resolved[Val(st.resolve)] = @ + 1,
                       !.disposed[Val(st.resolve)] = TRUE,
                       !.task = Undef, !.resolve = Undef,
                       !.done = Some([id |-> id, outcome |-> outcome])]

\* run(subtitle, func) up to its await, lines 77-90: without a task, runTask
\* opens a notification and its callback sets task and resolve at once (as
\* the comment in it assumes).  func is called with the task: when it throws
\* before returning a promise the finally block runs in the same step; else
\* runSubtask registers the promise on the task and the call is suspended.
Run(throws) ==
  /\ act.nextRun <= MaxRun
  /\ LET id == act.nextRun
         t == IF IsDef(act.task) THEN Val(act.task) ELSE act.tasks + 1
         s0 == [act EXCEPT !.nextRun = id + 1, !.tasks = IF IsDef(act.task) THEN @ ELSE t,
                           !.task = Some(t),
                           !.resolve = IF IsDef(act.task) THEN @ ELSE Some(t)]
     IN act' = IF throws THEN RunFinally(s0, id, "error")
               ELSE IF s0.disposed[t]
               THEN RunFinally(s0, id, "assertion")
               ELSE TaskUpdateProgress(
                      [s0 EXCEPT !.pending[t] = @ \cup {id},
                                 !.runs = @ \cup {[id |-> id, task |-> t]},
                                 !.done = Undef], t)
  /\ UNCHANGED treeVars
  /\ UNCHANGED prog

\* The promise returned by func settles: runSubtask resumes in its finally
\* block (lines 30-33) on the task it was called on, then run resumes in its
\* own finally block.
RunDone(r, ok) ==
  /\ r \in act.runs
  /\ act' = RunFinally(TaskUpdateProgress(
                         [act EXCEPT !.runs = @ \ {r},
                                     !.pending[r.task] = @ \ {r.id}], r.task),
                       r.id, IF ok THEN "value" ELSE "error")
  /\ UNCHANGED treeVars
  /\ UNCHANGED prog

-----------------------------------------------------------------------------
(* Specifications *)

Start ==
  /\ data = <<>>
  /\ promise = 0
  /\ promises = [p \in PromiseIds |-> [st |-> "unused", val |-> <<>>]]
  /\ meta = [n \in Nodes |-> NoMeta]
  /\ frames = EmptyBag
  /\ transfer = Undef
  /\ dragged = Undef
  /\ last = NoLast
  /\ latest = 0
  /\ lastParent = [n \in Nodes |-> NoNode]
  /\ firstItem = [n \in Nodes |-> Undef]
  /\ firstKids = [n \in Nodes |-> Undef]
  /\ iter = NoIter
  /\ prog = NoProgress
  /\ act = NoActivity

Init == Start /\ history = FALSE
InitHistory == Start /\ history = TRUE

\* Root population: setData with arrays and promises, getChildren(undefined).
NextRoot ==
  \/ \E v \in RootSets, rec \in BOOLEAN : SetDataArray(v, rec)
  \/ \E rec \in BOOLEAN : SetDataPromise(rec)
  \/ \E p \in PromiseIds, ok \in BOOLEAN, v \in RootSets : Settle(p, ok, v)
  \/ \E f \in Suspended : SetDataDone(f)
  \/ GetRoot
  \/ \E f \in Suspended : GetRootDone(f)

SpecRoot == Init /\ [][NextRoot]_vars

\* The node cache: rendering, children, parents and invalidation, over the
\* root collection <<"r">>.
Next ==
  \/ \E rec \in BOOLEAN : SetDataArray(<<"r">>, rec)
  \/ \E n \in Nodes : GetTreeItem(n)
  \/ \E f \in Suspended, ok \in BOOLEAN :
       \E uri \in RendererUris(f.node) : RenderDone(f, ok, uri)
  \/ \E f \in Suspended, ok \in BOOLEAN, checked \in BOOLEAN : CheckedDone(f, ok, checked)
  \/ \E n \in Nodes : GetChildren(n)
  \/ \E f \in Suspended, ok \in BOOLEAN :
       \E res \in {Some(l) : l \in ChildLists(f.node)} \cup {Undef} : KidsDone(f, ok, res)
  \/ \E n \in Nodes : GetParent(n)
  \/ \E rec \in BOOLEAN : DataChanged("all", <<>>, rec)
  \/ \E n \in Nodes, rec \in BOOLEAN : DataChanged("node", <<n>>, rec)
  \/ DataChanged("list", <<"a", "b">>, TRUE)

Spec == Init /\ [][Next]_vars

\* The node cache with the first results recorded, for calls on r and a.
Watched == {"r", "a"}

NextHistory ==
  \/ SetDataArray(<<"r">>, TRUE)
  \/ \E n \in Watched : GetTreeItem(n)
  \/ \E f \in Suspended, ok \in BOOLEAN :
       \E uri \in RendererUris(f.node) : RenderDone(f, ok, uri)
  \/ \E n \in Watched : GetChildren(n)
  \/ \E f \in Suspended, ok \in BOOLEAN :
       \E res \in {Some(l) : l \in ChildLists(f.node)} \cup {Undef} : KidsDone(f, ok, res)
  \/ \E n \in Watched, rec \in BOOLEAN : DataChanged("node", <<n>>, rec)

SpecHistory == InitHistory /\ [][NextHistory]_vars

\* Drag and drop of the nodes r and a (onto any node), with the cache operations that
\* render them, link them and invalidate them.
DragSources == {<<"r">>, <<"a">>, <<"a", "r">>}

NextDrag ==
  \/ \E v \in RootSets : SetDataArray(v, TRUE)
  \/ \E n \in Watched : GetTreeItem(n)
  \/ \E f \in Suspended, ok \in BOOLEAN :
       \E uri \in RendererUris(f.node) : RenderDone(f, ok, uri)
  \/ \E f \in Suspended, ok \in BOOLEAN : KidsDone(f, ok, Some(<<"a">>))
  \/ GetChildren("r")
  \/ \E n \in Watched : DataChanged("node", <<n>>, FALSE)
  \/ \E sources \in DragSources, go \in BOOLEAN : HandleDrag(sources, go)
  \/ \E target \in {Undef} \cup {Some(n) : n \in Nodes} : HandleDrop(target)
  \/ \E f \in Suspended, ok \in BOOLEAN : DropDone(f, ok)

SpecDrag == Init /\ [][NextDrag]_vars

\* Decorations over the nodes r and a, with the cache operations that render
\* them, link them and invalidate them.
NextDeco ==
  \/ \E v \in RootSets : SetDataArray(v, TRUE)
  \/ \E n \in Watched : GetTreeItem(n)
  \/ \E f \in Suspended, ok \in BOOLEAN :
       \E uri \in RendererUris(f.node) : RenderDone(f, ok, uri)
  \/ GetChildren("r")
  \/ \E f \in Suspended, ok \in BOOLEAN : KidsDone(f, ok, Some(<<"a">>))
  \/ \E n \in Watched, rec \in BOOLEAN : DataChanged("node", <<n>>, rec)
  \/ \E uri \in DecoUris, some \in BOOLEAN, known \in BOOLEAN :
       ProvideFileDecoration(uri, some, known)
  \/ \E n \in Watched, up \in BOOLEAN : UpdateDecorations(n, up)

SpecDeco == Init /\ [][NextDeco]_vars

\* Traversals of the cache by iterateNodes, one generator at a time, with the
\* operations that fill and invalidate the root collection and the child lists.
NextIter ==
  \/ \E v \in RootSets : SetDataArray(v, TRUE)
  \/ \E n \in Watched : GetChildren(n)
  \/ \E f \in Suspended, ok \in BOOLEAN :
       \E res \in {Some(l) : l \in ChildLists(f.node)} : KidsDone(f, ok, res)
  \/ \E n \in Watched, rec \in BOOLEAN : DataChanged("node", <<n>>, rec)
  \/ \E root \in {Undef} \cup {Some(n) : n \in Nodes} : IterateStart(root)
  \/ IterateNext

SpecIter == Init /\ [][NextIter]_vars

\* Child enumeration by producers that share no node, overlapping with each
\* other and with invalidations and replacements of the root collection.
NextFamily ==
  \/ \E v \in RootSets : SetDataArray(v, TRUE)
  \/ \E n \in Nodes : GetChildren(n)
  \/ \E f \in Suspended, ok \in BOOLEAN :
       \E res \in {Some(l) : l \in OwnChildLists(f.node)} \cup {Undef} : KidsDone(f, ok, res)
  \/ \E n \in Nodes, rec \in BOOLEAN : DataChanged("node", <<n>>, rec)
  \/ \E rec \in BOOLEAN : DataChanged("all", <<>>, rec)
  \/ \E n \in Nodes : GetParent(n)

SpecFamily == Init /\ [][NextFamily]_vars

\* Overlapping Progress.with calls.
NextProgress ==
  \/ \E label \in Labels, throws \in BOOLEAN : With(label, throws)
  \/ \E id \in 1..MaxWith, ok \in BOOLEAN : WithDone(id, ok)

SpecProgress == Init /\ [][NextProgress]_vars

\* Overlapping Activity.run calls.
NextActivity ==
  \/ \E throws \in BOOLEAN : Run(throws)
  \/ \E r \in act.runs, ok \in BOOLEAN : RunDone(r, ok)

SpecActivity == Init /\ [][NextActivity]_vars

-----------------------------------------------------------------------------
(* Properties *)

Clear(n) == ~IsDef(meta[n].treeItem) /\ ~IsDef(meta[n].children) /\ ~meta[n].decorations

\* C1: once getTreeItem(n) has completed successfully, and until n is
\* invalidated, every later getTreeItem(n) is answered from the cache with that
\* same item and the node's renderer is not invoked again.
C1_RenderedOnce ==
  \A n \in Nodes :
    (IsDef(firstItem[n]) /\ last.node = n) =>
      /\ (last.op = "getTreeItem" /\ last.hit => last.ret = firstItem[n])
      /\ ~(last.op = "getTreeItemAwait" /\ "getTreeItem" \in last.called)

\* C2: when dataChanged(n, recursive = true) has returned, no node below n
\* (through the parent back-references getChildren recorded) has a cached
\* item, child list or decorations.
C2_RecursiveClearsDescendants ==
  (last.op = "dataChanged" /\ last.rec /\ last.node # NoNode) =>
    \A d \in UnderByParent(meta, last.node, {last.node}) : Clear(d)

\* C3: when a setData call whose promise was superseded by a later setData
\* call resumes, it changes neither the root collection nor the promise marker.
C3_SupersededIsDiscarded ==
  [][(last'.op = "setDataDone" /\ last'.p # latest) =>
       (data' = data /\ promise' = promise)]_vars

\* C4: getParent(c) returns the node whose children-producer most recently
\* returned c; no other step (invalidation, rendering) changes it.
C4_ParentIsLastProducer ==
  /\ \A c \in Nodes : meta[c].parent = lastParent[c]
  /\ (last.op = "getParent" => last.ret = Some(lastParent[last.node]))

\* A child's parent is its producer although the producer's own cache was
\* invalidated after it produced the child, and the producer was rendered again.
C4_Witness ==
  /\ last.op = "getParent" /\ last.node = "b" /\ last.ret = Some("a")
  /\ ~IsDef(meta["a"].children) /\ IsDef(meta["a"].treeItem)
  /\ IsDef(meta["b"].treeItem)

\* C5: when the last part of getTreeItem(c) runs for a node c with path
\* segments whose renderer left the locator unset, then, if c's parent has a
\* cached item with locator L, the item cached for c has the locator L with the
\* segments appended in order; if the parent has no cached item, the call
\* fails and caches nothing.
C5_PathSegments ==
  [][\A c \in Nodes :
       (/\ last'.op = "getTreeItem" /\ last'.node = c /\ last'.fin
        /\ PathSegments(c) # <<>> /\ ~IsDef(last'.raw)) =>
         LET par == ParentItem(meta, c) IN
         /\ (IsDef(par) /\ IsDef(Val(par).uri) =>
               /\ last'.err = "none"
               /\ meta'[c].treeItem = last'.ret
               /\ Val(last'.ret).uri =
                    Some([auth |-> Val(Val(par).uri).auth,
                          path |-> Val(Val(par).uri).path \o PathSegments(c)]))
         /\ (~IsDef(par) =>
               /\ last'.err = "rethrown"
               /\ meta'[c].treeItem = meta[c].treeItem)]_vars

\* b was rendered below a, whose own locator came from its segments.
C5_Witness ==
  /\ last.op = "getTreeItem" /\ last.node = "b" /\ last.fin /\ last.err = "none"
  /\ Val(last.ret).uri = Some([auth |-> "base", path |-> <<"x", "y", "z">>])

\* C6: a drop of the payload stored by a drag of s onto another node t:
\* when some node reachable from the root collection through cached child
\* lists has the payload's locator and t has a drop handler, t.onDrop is
\* invoked once with a node whose cached locator is s's locator at drag
\* time; when no reachable node has that locator, no handler is invoked and
\* no error is reported.
C6_DragThenDrop ==
  [][\A t \in Nodes :
       (/\ last'.op \in {"handleDrop", "handleDropAwait"} /\ last'.node = t
        /\ IsDef(transfer) /\ IsDef(dragged) /\ Val(dragged).node # t) =>
         LET holders == {n \in SetOf(IterateList(meta, data)) :
                           HasLocator(meta, n, Val(transfer))}
         IN /\ (holders # {} /\ HasOnDrop(t) =>
                  /\ last'.op = "handleDropAwait" /\ last'.called = {"onDrop"}
                  /\ IsDef(last'.arg)
                  /\ Val(meta[Val(last'.arg)].treeItem).uri = Some(Val(dragged).uri))
            /\ (holders = {} => last'.called = {} /\ last'.err = "none")]_vars

\* C7: a setData call fires exactly one whole-tree notification, and its
\* listener still sees the root collection and the promise marker as they
\* were before the call; the resumption after the await fires nothing.
C7_OneNotificationFirst ==
  [][/\ (last'.op = "setData" => last'.fired = <<Note("all", <<>>, data, promise)>>)
     /\ (last'.op = "setDataDone" => last'.fired = <<>>)]_vars

\* A setData call with a promise replaced the marker after notifying while
\* an earlier root collection was in place.
C7_Witness ==
  /\ last.op = "setData" /\ last.p # 0 /\ promise = last.p
  /\ Len(last.fired) = 1 /\ last.fired[1].promise # last.p
  /\ data # <<>>

\* C8: when the promise given to setData rejected, the resumed call rethrows,
\* leaves the root collection as it was and clears the promise marker; and
\* getChildren(undefined) never awaits a rejected promise.
C8_RejectionKeepsRoot ==
  [][/\ (last'.op = "setDataDone" /\ promises[last'.p].st = "failed") =>
          (last'.err = "raised" /\ data' = data /\ promise' = 0)
     /\ (last'.op = "getRootAwait" => promises[last'.p].st # "failed")]_vars

\* A rejection reached the caller while a root collection was in place.
C8_Witness ==
  /\ last.op = "setDataDone" /\ last.err = "raised"
  /\ data # <<>> /\ promise = 0

\* C9: getChildren(undefined) awaits the promise of the most recent setData
\* call while it is pending and returns its value; it returns the root
\* collection at once only when that promise is not pending.
C9_RootAwaitsLatest ==
  /\ (last.op = "getRootAwait" => last.p = latest)
  /\ (last.op = "getRoot" /\ last.p = 0 =>
        /\ (latest = 0 \/ promises[latest].st # "pending")
        /\ last.ret = Some(data))
  /\ (last.op = "getRoot" /\ last.p # 0 /\ last.err = "none" =>
        last.ret = Some(promises[last.p].val))

\* C11: a failure of the children-producer inside getChildren(n) is reported
\* and not raised: the call returns nothing and leaves n's child list as it
\* was; a failure of the renderer, of the checkbox-getter or of an invariant
\* check inside getTreeItem(n) is reported and raised again.
C11_FailuresReported ==
  [][/\ (last'.cause = "producer" =>
           /\ last'.op = "getChildren" /\ last'.err = "reported"
           /\ last'.ret = Undef
           /\ meta'[last'.node].children = meta[last'.node].children)
     /\ ((last'.op = "getTreeItem"
           /\ last'.cause \in {"renderer", "checked", "assertion"}) =>
           (last'.err = "rethrown" /\ last'.ret = Undef))]_vars

\* A producer failed for a node whose child list was not cached.
C11_Witness ==
  /\ last.op = "getChildren" /\ last.cause = "producer" /\ last.err = "reported"
  /\ ~IsDef(meta[last.node].children)

\* The locator of the item cached for n, <<>> when there is none.
Locator(n) == IF IsDef(meta[n].treeItem) THEN Val(meta[n].treeItem).uri ELSE Undef

\* n followed by its ancestors along the parent back-references.
RECURSIVE ParentChain(_)
ParentChain(n) ==
  <<n>> \o (IF meta[n].parent # NoNode THEN ParentChain(meta[n].parent) ELSE <<>>)

\* C12: updateDecorations(n) for a node without cached item, or whose cached
\* item has no locator, raises an assertion error, clears nothing and fires
\* nothing.
C12_UpdateDecorationsFails ==
  [][\A n \in Nodes :
       (/\ last'.op = "updateDecorations" /\ last'.node = n
        /\ ~IsDef(Locator(n))) =>
         /\ last'.err = "raised"
         /\ last'.deco = <<>>
         /\ \A c \in Nodes : meta'[c].decorations = meta[c].decorations]_vars

\* C13: handleDrag stores a payload only for a single source whose drag
\* callback returned true and that has a cached item with a locator; the
\* payload is then the string form of that locator (authority, then path);
\* a drag of several sources stores nothing.
C13_DragPayload ==
  [][last'.op = "handleDrag" =>
       LET sources == Val(last'.arg)
           n == sources[1]
           uri == IF IsDef(meta[n].treeItem) THEN Val(meta[n].treeItem).uri ELSE Undef
       IN /\ (IsDef(transfer') =>
                /\ Len(sources) = 1
                /\ n \in {"a", "b"}
                /\ last'.called = {"onDrag"} /\ last'.ret = Some(TRUE)
                /\ IsDef(uri)
                /\ transfer' = Some(<<Val(uri).auth>> \o Val(uri).path))
          /\ (Len(sources) > 1 =>
                transfer' = Undef /\ last'.called = {} /\ last'.err = "reported")]_vars

\* The drag of the rendered node a stored the string of its locator.
C13_Witness ==
  /\ last.op = "handleDrag" /\ last.node = "a"
  /\ transfer = Some(<<"base", "x", "y">>)

\* C14: a node's metadata record comes into existence only by a getTreeItem
\* or getChildren call on that node, and an invalidation of the node
\* (dataChanged on it, setData over it) removes the record.
C14_RecordIffRendered ==
  [][\A n \in Nodes :
       /\ (~meta[n].exists /\ meta'[n].exists =>
             /\ last'.node = n
             /\ last'.op \in {"getTreeItem", "getTreeItemAwait",
                               "getChildren", "getChildrenAwait"})
       /\ (last'.op = "dataChanged" /\ last'.node = n => ~meta'[n].exists)
       /\ (last'.op = "setData" /\ n \in SetOf(data) => ~meta'[n].exists)]_vars

\* C15: the promise marker is absent or is the promise of the most recent
\* setData call; it is absent only when that call passed an array or its
\* promise has settled.
C15_OneRootPopulation ==
  /\ (promise # 0 => promise = latest)
  /\ (promise = 0 => (latest = 0 \/ promises[latest].st # "pending"))

\* C16: while a getTreeItem(n) or getChildren(n) call that missed the cache
\* is suspended before storing its result, no other getTreeItem, getChildren
\* or dataChanged step on n runs; so the callback of a node is never pending
\* twice.
C16_NoStepBetweenCheckAndWrite ==
  [][\A f \in Suspended :
       (/\ f.kind \in {"item", "checked", "kids"}
        /\ CopiesIn(f, frames') >= CopiesIn(f, frames)) =>
         ~(/\ last'.node = f.node
           /\ last'.op \in {"getTreeItem", "getTreeItemAwait", "getChildren",
                             "getChildrenAwait", "dataChanged"})]_vars

\* The cached fields and parent back-reference of every node.
Cache(m) == [n \in Nodes |-> [treeItem |-> m[n].treeItem, children |-> m[n].children,
                              parent |-> m[n].parent, decorations |-> m[n].decorations]]

\* C17: handleDrop of a stored payload with no target, or onto a node
\* without drop handler, invokes no handler, changes no tree state, fires nothing and neither
\* raises nor reports an error.
C17_DropWithoutHandler ==
  [][(/\ last'.op = "handleDrop" /\ IsDef(transfer)
      /\ (last'.node = NoNode \/ last'.node = "b")) =>
        /\ last'.called = {} /\ last'.err = "none"
        /\ last'.fired = <<>> /\ last'.deco = <<>>
        /\ Cache(meta') = Cache(meta)
        /\ data' = data /\ promise' = promise /\ frames' = frames]_vars

C19_DataChangedNotifies ==
  [][last'.op = "dataChanged" =>
       LET x == Val(last'.arg)
           affected == IF x.kind = "all" THEN SetOf(data) ELSE SetOf(x.nodes)
       IN /\ Len(last'.fired) = 1
          /\ last'.fired[1].kind = x.kind /\ last'.fired[1].nodes = x.nodes
          /\ \A n \in affected :
               /\ n \notin last'.seen
               /\ ~IsDef(meta'[n].treeItem) /\ ~IsDef(meta'[n].children)
               /\ ~meta'[n].decorations]_vars

\* dataChanged(a, false) was notified while other nodes were still cached.
C19_Witness ==
  /\ last.op = "dataChanged" /\ last.node = "a" /\ ~last.rec
  /\ "a" \notin last.seen /\ "b" \in last.seen

\* C20: when n has no children-producer, or its producer returned nothing,
\* getChildren(n) ends without error, returns nothing, leaves the child list
\* uncached and changes no parent back-reference.
C20_NoChildrenIsNoError ==
  [][(/\ last'.op = "getChildren" /\ ~last'.hit
      /\ last'.cause # "producer" /\ ~IsDef(last'.ret)) =>
        /\ last'.err = "none"
        /\ ~IsDef(meta'[last'.node].children)
        /\ \A c \in Nodes : meta'[c].parent = meta[c].parent]_vars

\* The producer of r returned nothing after it had returned a before.
C20_Witness ==
  /\ last.op = "getChildren" /\ last.node = "r" /\ ~last.hit
  /\ last.err = "none" /\ ~IsDef(last.ret)
  /\ meta["a"].parent = "r"

\* C21: the item a cache miss of getTreeItem(n) caches and returns carries
\* the checkbox state of n's checkbox-getter when n has one (whatever the
\* renderer set), else the renderer's; and the renderer's context tag when
\* it set one, else the default tag of n's type when there is one.
C21_Augmentations ==
  [][\A n \in Nodes :
       (/\ last'.op = "getTreeItem" /\ last'.node = n /\ last'.fin
        /\ last'.err = "none") =>
         LET item == Val(last'.ret) IN
         /\ meta'[n].treeItem = last'.ret
         /\ item.checkbox =
              (IF n = "b"
               THEN (IF Val(last'.got) THEN "checked" ELSE "unchecked")
               ELSE RendererCheckbox(n))
         /\ item.ctx =
              (IF RendererContext(n) # "unset" THEN RendererContext(n)
               ELSE IF n \in {"r", "a"} THEN "viewItem" ELSE "unset")]_vars

\* The getter of b answered false where b's renderer had set "checked".
C21_Witness ==
  /\ last.op = "getTreeItem" /\ last.node = "b" /\ last.fin /\ last.err = "none"
  /\ last.got = Some(FALSE)
  /\ Val(meta["b"].treeItem).checkbox = "unchecked"

\* C22: when the last part of getTreeItem(n) runs for a node with path
\* segments whose renderer supplied a locator, or that has no parent
\* back-reference, or whose parent has no locator on a cached item, the call
\* reports and raises the error, caches nothing for n and fires nothing on
\* the decoration channel.
C22_SegmentCheckFails ==
  [][\A n \in Nodes :
       (/\ last'.op = "getTreeItem" /\ last'.node = n /\ last'.fin
        /\ PathSegments(n) # <<>>
        /\ \/ IsDef(last'.raw)
           \/ meta[n].parent = NoNode
           \/ ~IsDef(Locator(meta[n].parent))) =>
         /\ last'.err = "rethrown" /\ last'.cause = "assertion"
         /\ last'.ret = Undef /\ last'.deco = <<>>
         /\ meta'[n].treeItem = meta[n].treeItem]_vars

\* The renderer of a supplied a locator although a declares path segments.
C22_Witness ==
  /\ last.op = "getTreeItem" /\ last.node = "a" /\ last.fin
  /\ IsDef(last.raw) /\ last.err = "rethrown"
  /\ ~IsDef(meta["a"].treeItem)

\* The nodes a traversal from the generator's root yields over the cache m and
\* the root collection d: the given root's subtree, or every root's in order.
PreOrder(m, d, it) ==
  IF IsDef(it.root) THEN IterateNodes(m, Val(it.root)) ELSE IterateList(m, d)

\* s is an initial part of t.
IsPrefix(s, t) == Len(s) <= Len(t) /\ SubSeq(t, 1, Len(s)) = s

\* C23: iterateNodes is a depth-first pre-order traversal of the cached child
\* lists that starts anew at each call and invokes no producer: its steps
\* call nothing, suspend nothing and replace no cached list; while no list
\* was replaced under it, what it has yielded is an initial part of the
\* pre-order of the cache (from the given root, or over every root in order),
\* and all of it when it ends.  It is lazy: the step after a node was yielded
\* reads that node's child list as the cache holds it then, so it yields the
\* first child cached at that moment, and descends nowhere when the list was
\* invalidated in between.
C23_LazyPreOrder ==
  [][/\ (last'.op \in {"iterateNodes", "iterateNext", "iterateDone"}) =>
          /\ last'.called = {}
          /\ frames' = frames
          /\ data' = data
          /\ \A n \in Nodes : /\ meta'[n].children = meta[n].children
                              /\ meta'[n].treeItem = meta[n].treeItem
     /\ (last'.op = "iterateNodes") => iter'.out = <<>>
     /\ (last'.op \in {"iterateNext", "iterateDone"} /\ ~iter'.dirty) =>
          /\ IsPrefix(iter'.out, PreOrder(meta', data', iter'))
          /\ (iter'.st = "done") => iter'.out = PreOrder(meta', data', iter')
     /\ (last'.op \in {"iterateNext", "iterateDone"} /\ iter.fresh # NoNode) =>
          IF IsDef(meta[iter.fresh].children) /\ Val(meta[iter.fresh].children) # <<>>
          THEN /\ last'.op = "iterateNext"
               /\ last'.node = Head(Val(meta[iter.fresh].children))
               /\ Len(iter'.stack) = Len(iter.stack) + 1
          ELSE Len(iter'.stack) <= Len(iter.stack)]_vars

\* A whole-forest traversal over an undisturbed cache has ended after
\* yielding r, a and b (the child of a, then the second child of r).
C23_Witness ==
  /\ iter.st = "done" /\ ~iter.dirty /\ ~IsDef(iter.root)
  /\ iter.out = <<"r", "a", "b", "b">>

\* C24 as stated, for every render of a node with a decoration provider: the
\* call that finishes rendering n fires the decoration channel exactly once,
\* with the locator of the item it cached.
C24_FiresOnEveryRender ==
  [][\A n \in Nodes :
       (/\ last'.op = "getTreeItem" /\ last'.node = n /\ last'.fin
        /\ HasGetDecorations(n)) =>
         /\ Len(last'.deco) = 1
         /\ IsDef(last'.deco[1])
         /\ IsDef(meta'[n].treeItem)
         /\ Val(meta'[n].treeItem).uri = last'.deco[1]]_vars

\* C24, amended: a getTreeItem(n) call that renders a node with a decoration
\* provider and ends without error fires the decoration channel exactly
\* once, with the locator of the item that the same step cached and returns;
\* a render that ends in a failed assertion (no locator resolved) fires
\* nothing; a cache hit, the step that starts the renderer, and a node
\* without a decoration provider fire nothing.
C24_DecorationFired ==
  [][\A n \in Nodes :
       /\ (/\ last'.op = "getTreeItem" /\ last'.node = n /\ last'.fin
           /\ HasGetDecorations(n)) =>
            IF last'.err = "none"
            THEN /\ Len(last'.deco) = 1
                 /\ IsDef(last'.deco[1])
                 /\ IsDef(meta'[n].treeItem)
                 /\ Val(meta'[n].treeItem).uri = last'.deco[1]
                 /\ last'.ret = meta'[n].treeItem
            ELSE /\ last'.deco = <<>>
                 /\ last'.cause = "assertion"
       /\ (/\ last'.op \in {"getTreeItem", "getTreeItemAwait"} /\ last'.node = n
           /\ \/ last'.hit
              \/ ~last'.fin
              \/ ~HasGetDecorations(n)) =>
            last'.deco = <<>>]_vars

\* The render of a, whose locator is its parent's extended by a's path
\* segments, fired the decoration channel with that locator.
C24_Witness ==
  /\ last.op = "getTreeItem" /\ last.node = "a" /\ last.fin /\ last.err = "none"
  /\ ~IsDef(last.raw)
  /\ last.deco = <<Some(AppendPath(BaseUri, PathSegments("a")))>>

\* C25: a getTreeItem(n) or getChildren(n) call that was suspended when n's
\* metadata was cleared stores nothing in n's cache when it resumes: the step
\* that ends such a call leaves n's cached item and child list as they were.
C25_StaleCallStoresNothing ==
  [][\A f \in Suspended :
       (/\ f.kind \in {"item", "checked", "kids"}
        /\ f.stale
        /\ CopiesIn(f, frames') < CopiesIn(f, frames)) =>
         /\ meta'[f.node].treeItem = meta[f.node].treeItem
         /\ meta'[f.node].children = meta[f.node].children]_vars

\* C26: every node with a decoration provider that has a cached rendered item
\* has a resource locator on that item.
C26_DecoratedItemHasLocator ==
  \A n \in Nodes :
    (HasGetDecorations(n) /\ IsDef(meta[n].treeItem)) => IsDef(Locator(n))

\* C27: dataChanged(n, false) clears the cached item, child list and
\* decorations of n and of no other node; every parent back-reference (that
\* of n included), the root collection and the root promise stay as they were.
C27_DataChangedFrame ==
  [][(/\ last'.op = "dataChanged" /\ Val(last'.arg).kind = "node" /\ ~last'.rec) =>
       LET n == last'.node IN
       /\ ~IsDef(meta'[n].treeItem) /\ ~IsDef(meta'[n].children) /\ ~meta'[n].decorations
       /\ \A x \in Nodes \ {n} : /\ meta'[x].treeItem = meta[x].treeItem
                                 /\ meta'[x].children = meta[x].children
                                 /\ meta'[x].decorations = meta[x].decorations
       /\ \A x \in Nodes : meta'[x].parent = meta[x].parent
       /\ data' = data /\ promise' = promise /\ promises' = promises]_vars

\* dataChanged(r, false) left r cleared while its former child a keeps its
\* cached item, its cached child list and its parent back-reference to r.
C27_Witness ==
  /\ last.op = "dataChanged" /\ last.node = "r" /\ ~last.rec
  /\ ~IsDef(meta["r"].treeItem) /\ ~IsDef(meta["r"].children)
  /\ IsDef(meta["a"].treeItem) /\ IsDef(meta["a"].children)
  /\ meta["a"].parent = "r"

\* C28: when no node is returned by the producers of two different parents,
\* every node in the cached child list of a node p has p as its parent
\* back-reference, and getParent answers p for it.
C28_CachedChildHasParent ==
  \A p \in Nodes : \A c \in Nodes :
       (IsDef(meta[p].children) /\ c \in SetOf(Val(meta[p].children))) =>
         /\ meta[c].parent = p
         /\ (last.op = "getParent" /\ last.node = c) => last.ret = Some(p)

\* The child list of r is cached, by one of two overlapping getChildren(r)
\* calls of which the other is still pending, after an invalidation of b.
C28_Witness ==
  /\ meta["r"].children = Some(<<"a", "b">>)
  /\ meta["a"].parent = "r" /\ meta["b"].parent = "r"
  /\ \E f \in Suspended : f.kind = "kids" /\ f.node = "r"
  /\ last.op = "dataChanged" /\ last.node = "b"

\* The notifications that the host has opened and whose promise is unresolved.
OpenNotifications(p) == {k \in 1..p.opened : p.resolved[k] = 0}

\* A notification is open exactly while an operation is pending, and then
\* the latest one, to which thenable, signal, progress handle and dismiss
\* belong; with nothing pending they are unset and the finished counter is 0.
OpenWhilePending(p) ==
  /\ (OpenNotifications(p) # {}) <=> (p.pending # {})
  /\ {e.id : e \in p.pending} = p.calls
  /\ \A k \in 1..MaxWith : p.resolved[k] <= 1
  /\ IF p.pending # {}
     THEN /\ OpenNotifications(p) = {p.opened}
          /\ p.thenable = Some(p.opened) /\ p.signal = Some(p.opened)
          /\ p.progress = Some(p.opened) /\ p.dismiss = Some(p.opened)
     ELSE /\ p.thenable = Undef /\ p.signal = Undef
          /\ p.progress = Undef /\ p.dismiss = Undef
          /\ p.nrFinished = 0

\* C29: before and after every step, a notification is open exactly while a
\* with() operation is pending (OpenWhilePending).  A step opens a
\* notification only when nothing was pending before it, and resolves a
\* notification's promise only when nothing is pending after it, once and for
\* the notification that was open; every with() ends with the value or the
\* error of its own function.
C29_NotificationWhilePending ==
  [][/\ OpenWhilePending(prog) /\ OpenWhilePending(prog')
     /\ (prog'.opened # prog.opened) =>
          /\ prog.pending = {}
          /\ prog'.opened = prog.opened + 1
     /\ \A k \in 1..MaxWith :
          (prog'.resolved[k] # prog.resolved[k]) =>
            /\ prog'.pending = {}
            /\ prog'.resolved[k] = 1
            /\ k = prog'.opened
     /\ IsDef(prog'.done) => Val(prog'.done).outcome \in {"value", "error"}]_vars

\* The first notification was dismissed, and a later batch of two overlapping
\* operations shares the second one after one operation ended in an error.
C29_Witness ==
  /\ prog.opened = 2 /\ prog.resolved[1] = 1 /\ prog.resolved[2] = 0
  /\ Cardinality(prog.pending) = 2
  /\ prog.nrFinished = 0

\* C30: overlapping run() calls share one task and notification; every run()
\* ends with the value or the error of its own function; and once no run()
\* is pending, the promise of every notification opened was resolved exactly
\* once, by the step that ended the last pending run().
C30_SharedTask ==
  [][/\ \A r1 \in act'.runs : \A r2 \in act'.runs : r1.task = r2.task
     /\ IsDef(act'.done) => Val(act'.done).outcome \in {"value", "error"}
     /\ \A t \in 1..MaxRun :
          /\ act'.resolved[t] <= 1
          /\ (act'.resolved[t] # act.resolved[t]) => act'.runs = {}
          /\ (act'.runs = {} /\ t <= act'.tasks) => act'.resolved[t] = 1]_vars

\* C10: getChildren(n) answers from the cached list without calling the
\* producer; on a miss it caches what the producer returned and records n as
\* the parent of every child; once a list was returned, and until n is
\* invalidated, a later getChildren(n) returns that list without a producer call.
C10_ChildrenCached ==
  \A n \in Nodes :
    last.node = n =>
      /\ (last.op = "getChildren" /\ last.hit =>
            last.called = {} /\ last.ret = meta[n].children)
      /\ (last.op = "getChildren" /\ ~last.hit /\ IsDef(last.ret) =>
            /\ meta[n].children = last.ret
            /\ \A c \in SetOf(Val(last.ret)) : meta[c].parent = n)
      /\ (IsDef(firstKids[n]) =>
            /\ (last.op = "getChildren" /\ last.hit => last.ret = firstKids[n])
            /\ last.op # "getChildrenAwait")

====
